---- MODULE Spec2Model ----
(***************************************************************************)
(* Model of the brokerage-statement converter (helpers.py, core.py,        *)
(* broker_to_target.py).                                                   *)
(*                                                                         *)
(* Conventions of the model                                                *)
(*  - A worksheet is a rectangular grid: a sequence of rows, each a        *)
(*    sequence of NCols cells.  A cell is None, a number, a text or a      *)
(*    datetime.                                                            *)
(*  - A Python str is a sequence of word tokens (the words of the text,    *)
(*    separated by single blanks); the token " " stands for surrounding    *)
(*    white space.  Substring search and the regular expressions of the    *)
(*    source are contiguous-token searches; the Russian words of the       *)
(*    source are written transliterated, upper-case variants are distinct  *)
(*    tokens that Lower maps to the lower-case ones.                       *)
(*  - A Python float is an exact rational [n, d] in lowest terms.          *)
(*  - An exception is recorded in err and the program stops (pc = "done"). *)
(***************************************************************************)
EXTENDS Integers, Sequences, FiniteSets, TLC

VARIABLES
    ws,                  \* the worksheet (read-only grid)
    alloc_commission,    \* flag --alloc-commission
    locale_comma,        \* flag --locale-comma
    include_cash,        \* flag --include-cash
    mode,                \* which entry point runs: "trades", "cash" or "main"
    pc,                  \* position of the running program
    err,                 \* the exception that ended the program, or NoErr
    name_to_isin,        \* the instrument index handed to the classifiers
    header_row,          \* parse_trades_to_target: header_row
    idx_map,             \* parse_trades_to_target: idx_map
    r,                   \* parse_trades_to_target: r (current row)
    rows,                \* parse_trades_to_target: rows
    batch_items,         \* parse_trades_to_target: batch_items
    batch_total_fee,     \* parse_trades_to_target: batch_total_fee
    current_issue_text,  \* parse_trades_to_target: current_issue_text
    current_issue_isin,  \* parse_trades_to_target: current_issue_isin
    cash_col,            \* parse_cash_to_target: col
    cash_r,              \* parse_cash_to_target: r
    cash_rows,           \* parse_cash_to_target: rows
    regnum_to_isin,      \* main: regnum_to_isin
    all_rows             \* main: all_rows

vars == <<ws, alloc_commission, locale_comma, include_cash, mode, pc, err,
          name_to_isin, header_row, idx_map, r, rows, batch_items,
          batch_total_fee, current_issue_text, current_issue_isin,
          cash_col, cash_r, cash_rows, regnum_to_isin, all_rows>>

-----------------------------------------------------------------------------
(* Values *)

None == [k |-> "none"]

RECURSIVE Gcd(_, _)
Gcd(a, b) == IF b = 0 THEN a ELSE Gcd(b, a % b)

AbsInt(n) == IF n < 0 THEN -n ELSE n

\* the float n/d, in lowest terms with a positive denominator
Rat(n, d) ==
    LET g == Gcd(AbsInt(n), AbsInt(d))
        s == IF d < 0 THEN -1 ELSE 1
    IN  [k |-> "num", n |-> (s * n) \div g, d |-> (s * d) \div g]

Num(v) == [k |-> "num", n |-> v, d |-> 1]
Str(s) == [k |-> "str", s |-> s]
DateTime(y, m, d) == [k |-> "date", ymd |-> <<y, m, d>>]

IsNone(v) == v.k = "none"
IsNum(v) == v.k = "num"

RatAdd(a, b) == Rat(a.n * b.d + b.n * a.d, a.d * b.d)
RatMul(a, b) == Rat(a.n * b.n, a.d * b.d)
RatDiv(a, b) == Rat(a.n * b.d, a.d * b.n)
RatAbs(a) == [k |-> "num", n |-> AbsInt(a.n), d |-> a.d]
Zero == Num(0)

\* Python truth value of a cell value / optional float
Truthy(v) ==
    CASE v.k = "none" -> FALSE
      [] v.k = "num"  -> v.n # 0
      [] v.k = "str"  -> v.s # <<>>
      [] OTHER        -> TRUE

\* Python "x or 0.0" on an optional float
OrZero(v) == IF Truthy(v) THEN v ELSE Zero

-----------------------------------------------------------------------------
(* Text *)

\* str.lower() on one word
Lower(tok) ==
    CASE tok = "ITOGO"     -> "itogo"
      [] tok = "PO"        -> "po"
      [] tok = "VYPUSKU"   -> "vypusku"
      [] tok = "SDELKI"    -> "sdelki"
      [] tok = "S"         -> "s"
      [] tok = "CENNYMI"   -> "cennymi"
      [] tok = "BUMAGAMI"  -> "bumagami"
      [] tok = "Pokupka"   -> "pokupka"
      [] tok = "Prodazha"  -> "prodazha"
      [] tok = "Vvod"      -> "vvod"
      [] tok = "DS"        -> "ds"
      [] tok = "Vyvod"     -> "vyvod"
      [] tok = "Kupon"     -> "kupon"
      [] tok = "Sberbank"  -> "sberbank"
      [] tok = "Gazprom"   -> "gazprom"
      [] tok = "Bond"      -> "bond"
      [] tok = "ABC"       -> "abc"
      [] tok = "NaN"       -> "nan"
      [] tok = "ISIN"      -> "isin"
      [] tok = "Data"      -> "data"
      [] tok = "Summa"     -> "summa"
      [] tok = "RU000A0JWM18" -> "ru000a0jwm18"
      [] tok = "RU0009029540" -> "ru0009029540"
      [] tok = "RU0007661625" -> "ru0007661625"
      [] tok = "USD"       -> "usd"
      [] tok = "RUR"       -> "rur"
      [] tok = "RUB"       -> "rub"
      [] OTHER             -> tok

\* str.upper() on one word
Upper(tok) ==
    CASE tok = "ru000a0jwm18" -> "RU000A0JWM18"
      [] tok = "ru0009029540" -> "RU0009029540"
      [] tok = "ru0007661625" -> "RU0007661625"
      [] tok = "usd"          -> "USD"
      [] tok = "rur"          -> "RUR"
      [] tok = "rub"          -> "RUB"
      [] tok = "eur"          -> "EUR"
      [] OTHER                -> tok

RECURSIVE LowerText(_)
\* str.lower()
LowerText(s) == IF s = <<>> THEN <<>> ELSE <<Lower(Head(s))>> \o LowerText(Tail(s))

RECURSIVE UpperText(_)
\* str.upper()
UpperText(s) == IF s = <<>> THEN <<>> ELSE <<Upper(Head(s))>> \o UpperText(Tail(s))

RECURSIVE LStrip(_)
LStrip(s) == IF s # <<>> /\ Head(s) = " " THEN LStrip(Tail(s)) ELSE s

RECURSIVE RStrip(_)
RStrip(s) ==
    IF s # <<>> /\ s[Len(s)] = " " THEN RStrip(SubSeq(s, 1, Len(s) - 1)) ELSE s

\* str.strip()
Strip(s) == RStrip(LStrip(s))

\* "pat in s" (substring search) on words
Contains(s, pat) ==
    \E i \in 1..(Len(s) - Len(pat) + 1) : SubSeq(s, i, i + Len(pat) - 1) = pat

\* the first position where pat occurs in s, 0 when it does not
FirstAt(s, pat) ==
    LET at == {i \in 1..(Len(s) - Len(pat) + 1) : SubSeq(s, i, i + Len(pat) - 1) = pat}
    IN  IF at = {} THEN 0 ELSE CHOOSE i \in at : \A j \in at : i <= j

Pad2(n) == IF n < 10 THEN "0" \o ToString(n) ELSE ToString(n)
Pad4(n) ==
    IF n < 10 THEN "000" \o ToString(n)
    ELSE IF n < 100 THEN "00" \o ToString(n)
    ELSE IF n < 1000 THEN "0" \o ToString(n)
    ELSE ToString(n)

\* datetime.strftime("%Y-%m-%d")
Strftime(ymd) == Pad4(ymd[1]) \o "-" \o Pad2(ymd[2]) \o "-" \o Pad2(ymd[3])

\* str(value) of a cell value that is not None
PyStr(v) ==
    CASE v.k = "num"  -> <<ToString(v.n)>>
      [] v.k = "str"  -> v.s
      [] v.k = "date" -> <<Strftime(v.ymd), "00:00:00">>
      [] OTHER        -> <<"None">>

norm_text(value) == IF IsNone(value) THEN <<>> ELSE Strip(PyStr(value))

-----------------------------------------------------------------------------
(* helpers.py *)

\* float(s) of a text with blanks removed and, under locale_comma, "," read
\* as "."; NoFloat when float() raises ValueError
NoFloat == [k |-> "nofloat"]

PyFloat(glued) ==
    CASE glued = <<"40">>    -> Num(40)
      [] glued = <<"500">>   -> Num(500)
      [] glued = <<"1000">>  -> Num(1000)
      [] glued = <<"45000">> -> Num(45000)
      [] glued = <<"5.0">>   -> Num(5)
      [] glued = <<"-7">>    -> Num(-7)
      [] OTHER               -> NoFloat

\* s.replace(" ", ""): the words of the text glued together
RemoveBlanks(s) ==
    CASE s = <<"1", "000">> -> <<"1000">>
      [] s = <<"45", "000">> -> <<"45000">>
      [] OTHER -> s

\* s.replace(",", ".")
CommaToDot(s) ==
    CASE s = <<"40,0">> -> <<"40.0">>
      [] s = <<"5,0">>  -> <<"5.0">>
      [] OTHER -> s

PyFloatDot(glued) ==
    IF glued = <<"40.0">> THEN Num(40) ELSE PyFloat(glued)

parse_decimal(value, lc) ==
    IF IsNone(value) THEN None
    ELSE IF IsNum(value) THEN value
    ELSE LET s == Strip(PyStr(value)) IN
         IF s = <<>> \/ LowerText(s) \in {<<"nan">>, <<"none">>, <<"-">>} THEN None
         ELSE LET s1 == RemoveBlanks(s)
                  s2 == IF lc THEN CommaToDot(s1) ELSE s1
                  f  == PyFloatDot(s2)
              IN  IF f = NoFloat THEN None ELSE f

\* datetime.strptime(s, fmt) for the four formats of parse_date, in order;
\* <<>> when the format does not match
Strptime(s, fmt) ==
    CASE fmt = 1 /\ s = <<"15.01.2024">> -> <<2024, 1, 15>>
      [] fmt = 1 /\ s = <<"16.01.2024">> -> <<2024, 1, 16>>
      [] fmt = 2 /\ s = <<"17-01-2024">> -> <<2024, 1, 17>>
      [] fmt = 3 /\ s = <<"2024-01-18">> -> <<2024, 1, 18>>
      [] fmt = 4 /\ s = <<"2024.01.19">> -> <<2024, 1, 19>>
      [] OTHER -> <<>>

\* datetime(1899, 12, 30) + timedelta(days = n): the civil date of a day count
SerialDate(n) ==
    LET z   == n - 25569 + 719468
        era == z \div 146097
        doe == z - era * 146097
        yoe == (doe - doe \div 1460 + doe \div 36524 - doe \div 146096) \div 365
        doy == doe - (365 * yoe + yoe \div 4 - yoe \div 100)
        mp  == (5 * doy + 2) \div 153
        d   == doy - (153 * mp + 2) \div 5 + 1
        m   == IF mp < 10 THEN mp + 3 ELSE mp - 9
        y   == yoe + era * 400 + (IF m <= 2 THEN 1 ELSE 0)
    IN  <<y, m, d>>

\* parse_date: the "YYYY-MM-DD" string as Str(<<iso>>), or None
parse_date(value) ==
    IF IsNone(value) \/ Strip(PyStr(value)) = <<>> THEN None
    ELSE IF value.k = "date" THEN Str(<<Strftime(value.ymd)>>)
    ELSE LET s == Strip(PyStr(value))
             hits == {f \in 1..4 : Strptime(s, f) # <<>>}
         IN  IF hits # {}
             THEN Str(<<Strftime(Strptime(s, CHOOSE f \in hits : \A g \in hits : f <= g))>>)
             ELSE LET num == IF IsNum(value) THEN value ELSE PyFloat(s) IN
                  IF num = NoFloat \/ num.d # 1 THEN None
                  ELSE LET ymd == SerialDate(num.n) IN
                       IF ymd[1] < 1 \/ ymd[1] > 9999 THEN None
                       ELSE Str(<<Strftime(ymd)>>)

\* normalize_currency on a str: "" stays "", RUR and RUB give RUB
normalize_currency(ccy) ==
    IF ccy = <<>> THEN ccy
    ELSE LET c == UpperText(Strip(ccy)) IN
         IF c \in {<<"RUR">>, <<"RUB">>} THEN <<"RUB">> ELSE c

RECURSIVE LowerCells(_)
\* norm_text(cell).lower() of every cell of a row
LowerCells(values) ==
    IF values = <<>> THEN <<>>
    ELSE <<LowerText(norm_text(Head(values)))>> \o LowerCells(Tail(values))

\* a faulty variant of match_header_indices: a later cell overrides an
\* earlier one
match_header_indicesLast(values, mapping) ==
    LET texts == LowerCells(values)
        cols(key) == {j \in 1..Len(texts) :
                        /\ texts[j] # <<>>
                        /\ \E v \in mapping[key] : Contains(texts[j], LowerText(v))}
        found == {key \in DOMAIN mapping : cols(key) # {}}
    IN  [key \in found |-> (CHOOSE j \in cols(key) : \A i \in cols(key) : j >= i) - 1]

\* a header dictionary is a record: key -> set of variants.
\* idx_map: for every key with a variant in some cell, the first such column
\* (0-based)
match_header_indices(values, mapping) ==
    LET texts == LowerCells(values)
        cols(key) == {j \in 1..Len(texts) :
                        /\ texts[j] # <<>>
                        /\ \E v \in mapping[key] : Contains(texts[j], LowerText(v))}
        found == {key \in DOMAIN mapping : cols(key) # {}}
    IN  [key \in found |-> (CHOOSE j \in cols(key) : \A i \in cols(key) : j <= i) - 1]

RECURSIVE JoinBar(_)
\* " | ".join(norm_text(c) for c in row)
JoinBar(row) ==
    IF row = <<>> THEN <<>>
    ELSE IF Len(row) = 1 THEN norm_text(row[1])
    ELSE norm_text(row[1]) \o <<"|">> \o JoinBar(Tail(row))

\* pattern.search(text) for the compiled patterns of core.py (IGNORECASE)
ReSearch(pattern, text) ==
    LET t == LowerText(text) IN
    CASE pattern = "SECTION_TRADES_RE" ->
            Contains(t, <<"sdelki", "s", "cennymi", "bumagami">>)
      [] pattern = "SECTION_PORTFOLIO_RE" ->
            \/ Contains(t, <<"sostoyanie", "portfelya", "cennyh", "bumag">>)
            \/ Contains(t, <<"sostoyanie", "portfelya", "cennymi", "bumag">>)
      [] pattern = "SECTION_CASH_RE" ->
            \E i \in 1..(Len(t) - 5) : \E j \in (i + 3)..(Len(t) - 2) :
                /\ SubSeq(t, i, i + 2) = <<"dvizhenie", "denezhnyh", "sredstv">>
                /\ SubSeq(t, j, j + 2) = <<"za", "otchetnyj", "period">>
      [] pattern = "SECTION_CLEARANCE_RE" ->
            Contains(t, <<"ispolnenie", "obyazatelstv", "po", "sdelke">>)
      [] pattern = "TOTAL_RE" ->
            Contains(t, <<"itogo", "po", "vypusku">>)
      [] OTHER -> FALSE

\* find_section_title: the first row (1-based) whose text matches, 0 for None
find_section_title(sheet, pattern) ==
    LET hit == {i \in 1..Len(sheet) : ReSearch(pattern, JoinBar(sheet[i]))}
    IN  IF hit = {} THEN 0 ELSE CHOOSE i \in hit : \A j \in hit : i <= j

\* lookahead default of find_header_below
Lookahead == 25

Min(a, b) == IF a <= b THEN a ELSE b

RECURSIVE HeaderScan(_, _, _, _, _)
\* the for loop of find_header_below from row i on: the first row of the
\* window whose idx_map has every needed key
HeaderScan(sheet, i, max_r, mapping, needed) ==
    IF i > max_r THEN [found |-> FALSE, row |-> 0, idx |-> <<>>]
    ELSE LET idx == match_header_indices(sheet[i], mapping) IN
         IF needed \subseteq DOMAIN idx
         THEN [found |-> TRUE, row |-> i, idx |-> idx]
         ELSE HeaderScan(sheet, i + 1, max_r, mapping, needed)

\* a faulty variant of find_header_below: the window is not bounded by lookahead
find_header_belowNoWindow(sheet, start_row, mapping, needed) ==
    HeaderScan(sheet, start_row + 1, Len(sheet), mapping, needed)

\* find_header_below: [found, row, idx]; found = FALSE is the RuntimeError
find_header_below(sheet, start_row, mapping, needed) ==
    HeaderScan(sheet, start_row + 1, Min(Len(sheet), start_row + Lookahead),
               mapping, needed)

\* the exchange keys that occur inside one word
KeysInWord(tok) ==
    CASE tok = "moskovskaya" -> {"moskov"}
      [] tok = "mosbirzha"   -> {"mosbir"}
      [] tok \in {"moex", "spb", "nasdaq", "nyse", "lse", "hk"} -> {tok}
      [] OTHER -> {}

ExchangeMap ==
    << <<"moskov", "MCX">>, <<"moex", "MCX">>, <<"mosbir", "MCX">>,
       <<"spb", "SPB">>, <<"nasdaq", "NASDAQ">>, <<"nyse", "NYSE">>,
       <<"lse", "LSE">>, <<"hk", "HK">> >>

\* to_exchange on an optional str
to_exchange(place) ==
    IF IsNone(place) \/ place.s = <<>> THEN None
    ELSE LET s == LowerText(Strip(place.s))
             hit == {i \in 1..Len(ExchangeMap) :
                       \E w \in 1..Len(s) : ExchangeMap[i][1] \in KeysInWord(s[w])}
         IN  IF hit = {} THEN None
             ELSE Str(<<ExchangeMap[CHOOSE i \in hit : \A j \in hit : i <= j][2]>>)

\* the characters norm_key deletes: quotes and everything not alphanumeric
IsPunct(tok) == tok \in {"|", "-", ",", ".", "\"", " "}

FoldYo(tok) == IF tok = "samolyot" THEN "samolet" ELSE tok

\* norm_key: lower case, yo folded, punctuation deleted, words glued
norm_key(s) ==
    LET t == [i \in DOMAIN s |-> FoldYo(Lower(s[i]))]
    IN  SelectSeq(t, LAMBDA w : ~IsPunct(w))

IsIsinWord(tok) ==
    Lower(tok) \in {"ru000a0jwm18", "ru0009029540", "ru0007661625"}

\* isin_from_text: the first ISIN word of the text, upper case, or None
isin_from_text(text) ==
    LET hit == {i \in 1..Len(text) : IsIsinWord(text[i])}
    IN  IF hit = {} THEN None
        ELSE Str(<<Upper(Lower(text[CHOOSE i \in hit : \A j \in hit : i <= j]))>>)

-----------------------------------------------------------------------------
(* core.py: constants, the output record, the portfolio index *)

TRADE_TYPES_MAP == [pokupka |-> "Buy", prodazha |-> "Sell"]

HEADER_KEYS_TRADES ==
    [deal_no     |-> {<<"nomer", "sdelki">>},
     deal_date   |-> {<<"data", "sdelki">>},
     deal_time   |-> {<<"vremya", "sdelki">>},
     deal_type   |-> {<<"vid", "sdelki">>},
     price       |-> {<<"cena", "odnoj", "cb">>, <<"cena", "odnoj">>, <<"cena", "cb">>},
     price_ccy   |-> {<<"valyuta", "ceny">>},
     qty         |-> {<<"kolichestvo", "cb">>, <<"kolichestvo">>, <<"kol-vo", "cb">>},
     nkd         |-> {<<"nkd">>},
     amount      |-> {<<"summa", "sdelki">>, <<"summa">>},
     amount_ccy  |-> {<<"valyuta", "summy">>},
     comm_ts     |-> {<<"komissiya", "ts">>, <<"komissiya", "torgovoj", "sistemy">>},
     comm_broker |-> {<<"komissiya", "brokera">>},
     place       |-> {<<"mesto", "soversheniya", "sdelki">>, <<"mesto", "sdelki">>,
                      <<"ploshchadka">>}]

HEADER_KEYS_PORTFOLIO ==
    [name |-> {<<"naimenovanie", "cb">>, <<"naimenovanie">>, <<"instrument">>},
     isin |-> {<<"isin">>}]

HEADER_KEYS_CASH ==
    [op_no   |-> {<<"no", "operacii">>, <<"nomer", "operacii">>},
     date    |-> {<<"data">>},
     type    |-> {<<"tip", "operacii">>},
     amount  |-> {<<"summa">>},
     ccy     |-> {<<"valyuta">>},
     comment |-> {<<"kommentarij">>, <<"primechanie">>}]

NEEDED_TRADES == {"deal_date", "deal_type", "price", "qty", "amount", "amount_ccy"}
NEEDED_PORTFOLIO == {"name", "isin"}
NEEDED_CASH == {"date", "type", "amount", "ccy"}

TargetRow(event, date, symbol, price, qty, ccy, fee, exchange, nkd, note) ==
    [Event |-> event, Date |-> date, Symbol |-> symbol, Price |-> price,
     Quantity |-> qty, Currency |-> ccy, FeeTax |-> fee, Exchange |-> exchange,
     NKD |-> nkd, FeeCurrency |-> None, DoNotAdjustCash |-> None, Note |-> note]

\* errors
NoErr == "none"

\* a dict as the sequence of its <<key, value>> items in insertion order
DictOf(items) == [t |-> "dict", items |-> items]
\* a str where a dict was expected
StrObj(s) == [t |-> "str", s |-> s]

\* mapping[key] = value: an existing key keeps its position
DictPut(items, key, value) ==
    IF \E i \in 1..Len(items) : items[i][1] = key
    THEN [i \in 1..Len(items) |->
            IF items[i][1] = key THEN <<key, value>> ELSE items[i]]
    ELSE Append(items, <<key, value>>)

\* the cell test of the end-of-table check: v in (None, "", " ")
IsBlankCell(v) == IsNone(v) \/ v = Str(<<>>) \/ v = Str(<<" ">>)

RECURSIVE PortfolioLoop(_, _, _, _, _)
\* the row loop of parse_portfolio_isin_map from row i on
PortfolioLoop(sheet, i, name_col, isin_col, mapping) ==
    IF i > Len(sheet) THEN mapping
    ELSE LET name == sheet[i][name_col]
             isin == sheet[i][isin_col]
         IN  IF ~(Truthy(name) \/ Truthy(isin))
             THEN IF \A c \in 1..Len(sheet[i]) : IsBlankCell(sheet[i][c])
                  THEN mapping
                  ELSE PortfolioLoop(sheet, i + 1, name_col, isin_col, mapping)
             ELSE LET name_s == norm_text(name)
                      found  == isin_from_text(norm_text(isin))
                      isin_s == IF Truthy(found) THEN found.s ELSE norm_text(isin)
                  IN  IF name_s # <<>> /\ isin_s # <<>>
                      THEN PortfolioLoop(sheet, i + 1, name_col, isin_col,
                                         DictPut(mapping, norm_key(name_s), isin_s))
                      ELSE PortfolioLoop(sheet, i + 1, name_col, isin_col, mapping)

\* parse_portfolio_isin_map: [raised, mapping]
parse_portfolio_isin_map(sheet) ==
    LET title_row == find_section_title(sheet, "SECTION_PORTFOLIO_RE") IN
    IF title_row = 0 THEN [raised |-> NoErr, mapping |-> DictOf(<<>>)]
    ELSE LET h == find_header_below(sheet, title_row, HEADER_KEYS_PORTFOLIO,
                                    NEEDED_PORTFOLIO)
         IN  IF ~h.found
             THEN [raised |-> "RuntimeError", mapping |-> DictOf(<<>>)]
             ELSE [raised |-> NoErr,
                   mapping |-> DictOf(PortfolioLoop(sheet, h.row + 1,
                                   h.idx["name"] + 1, h.idx["isin"] + 1, <<>>))]

Raise(e) == [k |-> "raise", e |-> e]
IsRaise(v) == v.k = "raise"

\* find_isin_by_name: Str(isin), None, or the AttributeError of .items() on a
\* value that is no dict
find_isin_by_name(text, index) ==
    IF text = <<>> THEN None
    ELSE IF index.t # "dict" THEN Raise("AttributeError")
    ELSE LET key == norm_key(text)
             hit == {i \in 1..Len(index.items) :
                       /\ index.items[i][1] # <<>>
                       /\ Contains(key, index.items[i][1])}
         IN  IF hit = {} THEN None
             ELSE Str(index.items[CHOOSE i \in hit : \A j \in hit : i <= j][2])

-----------------------------------------------------------------------------
(* core.py: parse_trades_to_target *)

\* values[get(name)] if get(name) is not None else None
Cell(values, idx, name) ==
    IF name \in DOMAIN idx THEN values[idx[name] + 1] ELSE None

RECURSIVE SumAmounts(_)
\* sum(a for _, a in batch_items)
SumAmounts(items) ==
    IF items = <<>> THEN Zero ELSE RatAdd(items[1][2], SumAmounts(Tail(items)))

\* a faulty variant of FlushTotal: total = sum(...), without "or 1.0"
FlushTotalNoGuard(items) == SumAmounts(items)

\* total = sum(...) or 1.0
FlushTotal(items) ==
    LET t == SumAmounts(items) IN IF Truthy(t) THEN t ELSE Num(1)

\* a faulty variant of FlushShare: a // total instead of a / total
FlushShareFloorDiv(fee, a, total) ==
    RatMul(fee, Num((a.n * total.d) \div (a.d * total.n)))

\* share = batch_total_fee * (a / total)
FlushShare(fee, a, total) == RatMul(fee, RatDiv(a, total))

\* rows[idx_row].FeeTax = (rows[idx_row].FeeTax or 0.0) + share
AddShare(old, share) == RatAdd(OrZero(old), share)

RECURSIVE FlushApply(_, _, _, _)
\* the for loop of flush_batch
FlushApply(rs, items, fee, total) ==
    IF items = <<>> THEN rs
    ELSE LET i == items[1][1] + 1
             share == FlushShare(fee, items[1][2], total)
         IN  FlushApply([rs EXCEPT ![i].FeeTax = AddShare(@, share)],
                        Tail(items), fee, total)

\* the condition of flush_batch
FlushAllocates(items, fee, alloc) == alloc /\ items # <<>> /\ Truthy(fee)

\* a / total raises ZeroDivisionError when total is zero
FlushRaises(items, fee, alloc) ==
    FlushAllocates(items, fee, alloc) /\ FlushTotal(items).n = 0

\* rows after flush_batch
FlushRows(rs, items, fee, alloc) ==
    IF FlushAllocates(items, fee, alloc)
    THEN FlushApply(rs, items, fee, FlushTotal(items))
    ELSE rs

\* a faulty variant of IsTerminator: the clearance title does not end the table
IsTerminatorNoClearance(line_text) ==
    \/ ReSearch("SECTION_CASH_RE", line_text)
    \/ ReSearch("SECTION_PORTFOLIO_RE", line_text)

\* the section titles that end the trades table
IsTerminator(line_text) ==
    \/ ReSearch("SECTION_CASH_RE", line_text)
    \/ ReSearch("SECTION_PORTFOLIO_RE", line_text)
    \/ ReSearch("SECTION_CLEARANCE_RE", line_text)

IsTotalRow(line_text) == ReSearch("TOTAL_RE", line_text)

\* norm_text(deal_type_cell) == ""
IsBlankDealType(values, idx) == norm_text(Cell(values, idx, "deal_type")) = <<>>

RECURSIVE JoinNonBlank(_)
\* " ".join(norm_text(v) for v in values if norm_text(v))
JoinNonBlank(values) ==
    IF values = <<>> THEN <<>>
    ELSE norm_text(values[1]) \o JoinNonBlank(Tail(values))

\* deal_type of a trade row, in lower case
DealType(values, idx) == LowerText(norm_text(Cell(values, idx, "deal_type")))

\* the key of TRADE_TYPES_MAP a deal type is, "" when it is none
DealKey(deal_type) ==
    IF Len(deal_type) = 1 /\ deal_type[1] \in DOMAIN TRADE_TYPES_MAP
    THEN deal_type[1] ELSE ""

\* not deal_date or deal_type not in TRADE_TYPES_MAP
IsSkipped(values, idx) ==
    \/ ~Truthy(parse_date(Cell(values, idx, "deal_date")))
    \/ DealKey(DealType(values, idx)) = ""

\* fee = (fee_ts or 0.0) + (fee_br or 0.0); None when it is 0.0
RowFee(values, idx, lc) ==
    LET fee_ts == parse_decimal(Cell(values, idx, "comm_ts"), lc)
        fee_br == parse_decimal(Cell(values, idx, "comm_broker"), lc)
        fee    == RatAdd(OrZero(fee_ts), OrZero(fee_br))
    IN  IF fee.n # 0 THEN fee ELSE None

\* nkd or 0.0
NkdOrZero(nkd) == OrZero(nkd)

\* x or None on an optional str
OrNone(v) == IF Truthy(v) THEN v ELSE None

\* the TargetRow a trade row appends
TradeRecord(values, idx, lc, issue_isin, issue_text) ==
    LET place == IF "place" \in DOMAIN idx
                 THEN Str(norm_text(Cell(values, idx, "place"))) ELSE None
    IN  TargetRow(TRADE_TYPES_MAP[DealKey(DealType(values, idx))],
                  parse_date(Cell(values, idx, "deal_date")),
                  OrNone(issue_isin),
                  parse_decimal(Cell(values, idx, "price"), lc),
                  parse_decimal(Cell(values, idx, "qty"), lc),
                  Str(normalize_currency(norm_text(Cell(values, idx, "amount_ccy")))),
                  RowFee(values, idx, lc),
                  to_exchange(place),
                  NkdOrZero(parse_decimal(Cell(values, idx, "nkd"), lc)),
                  OrNone(issue_text))

\* a faulty variant of IsCandidate: the row's own fee is not looked at
IsCandidateAnyFee(values, idx, lc, alloc) ==
    alloc /\ ~IsNone(parse_decimal(Cell(values, idx, "amount"), lc))

\* whether the appended record is registered in the batch
IsCandidate(values, idx, lc, alloc) ==
    LET amount == parse_decimal(Cell(values, idx, "amount"), lc)
        fee    == RowFee(values, idx, lc)
    IN  alloc /\ ~IsNone(amount) /\ (IsNone(fee) \/ fee.n = 0)

\* batch_items after a trade row
BatchAfterTrade(items, n_rows, values, idx, lc, alloc) ==
    IF IsCandidate(values, idx, lc, alloc)
    THEN Append(items, <<n_rows - 1,
                         RatAbs(parse_decimal(Cell(values, idx, "amount"), lc))>>)
    ELSE items

\* a faulty variant of BatchAfterFlush: the batch is not cleared
BatchAfterFlushKeep(items) == items

\* batch_items after flush_batch
BatchAfterFlush(items) == <<>>

\* a faulty variant of FeeAfterFlush: the accumulated fee is not reset
FeeAfterFlushKeep(fee) == fee

\* batch_total_fee after flush_batch
FeeAfterFlush(fee) == Zero

\* batch_items after an issue-header row
BatchAfterIssueHeader(items) == items

\* batch_total_fee += (comm_ts or 0.0) + (comm_br or 0.0)
TotalRowFee(fee, values, idx, lc) ==
    RatAdd(fee, RatAdd(OrZero(parse_decimal(Cell(values, idx, "comm_ts"), lc)),
                       OrZero(parse_decimal(Cell(values, idx, "comm_broker"), lc))))

\* current_issue_isin of an issue-header row with text head_text
IssueIsin(head_text, index) ==
    LET direct == isin_from_text(head_text) IN
    IF Truthy(direct) THEN direct ELSE find_isin_by_name(head_text, index)

\* where control goes when parse_trades_to_target returns
AfterTrades == IF mode = "main" THEN "main_cash" ELSE "done"

tradeLocals == <<header_row, idx_map, r, rows, batch_items, batch_total_fee,
                 current_issue_text, current_issue_isin>>
inputs == <<ws, alloc_commission, locale_comma, include_cash, mode>>
cashLocals == <<cash_col, cash_r, cash_rows>>
mainLocals == <<regnum_to_isin, all_rows>>

\* a faulty variant of RowKind: the blank deal type is tested before the subtotal text
RowKindIssueFirst(values, idx) ==
    LET line_text == JoinBar(values) IN
    IF IsTerminator(line_text) THEN "terminator"
    ELSE IF IsBlankDealType(values, idx) THEN "issue"
    ELSE IF IsTotalRow(line_text) THEN "total"
    ELSE IF IsSkipped(values, idx) THEN "skip"
    ELSE "trade"

\* the branch of the loop body a row takes, in the order of the if statements
RowKind(values, idx) ==
    LET line_text == JoinBar(values) IN
    IF IsTerminator(line_text) THEN "terminator"
    ELSE IF IsTotalRow(line_text) THEN "total"
    ELSE IF IsBlankDealType(values, idx) THEN "issue"
    ELSE IF IsSkipped(values, idx) THEN "skip"
    ELSE "trade"

\* the result of find_header_below when there is no title to start from
NoHeader == [found |-> FALSE, row |-> 0, idx |-> <<>>]

\* raise RuntimeError: the trades section title is missing
TradesNoSection(title_row) ==
    /\ title_row = 0
    /\ err' = "RuntimeError"
    /\ pc' = "done"
    /\ UNCHANGED <<inputs, name_to_isin, tradeLocals, cashLocals, mainLocals>>

\* find_header_below raises RuntimeError: no header in the window
TradesNoHeader(title_row, h) ==
    /\ title_row # 0
    /\ ~h.found
    /\ err' = "RuntimeError"
    /\ pc' = "done"
    /\ UNCHANGED <<inputs, name_to_isin, tradeLocals, cashLocals, mainLocals>>

\* title and header found: the locals before the scan
TradesStart(title_row, h) ==
    /\ title_row # 0
    /\ h.found
    /\ header_row' = h.row
    /\ idx_map' = h.idx
    /\ r' = h.row + 1
    /\ rows' = <<>>
    /\ batch_items' = <<>>
    /\ batch_total_fee' = Zero
    /\ current_issue_text' = None
    /\ current_issue_isin' = None
    /\ pc' = "trades_scan"
    /\ UNCHANGED <<inputs, name_to_isin, err, cashLocals, mainLocals>>

\* parse_trades_to_target up to the loop
TradesBegin ==
    /\ pc = "trades_start"
    /\ \E title_row \in {find_section_title(ws, "SECTION_TRADES_RE")} :
       \E h \in {IF title_row = 0 THEN NoHeader
                 ELSE find_header_below(ws, title_row, HEADER_KEYS_TRADES,
                                        NEEDED_TRADES)} :
          \/ TradesNoSection(title_row)
          \/ TradesNoHeader(title_row, h)
          \/ TradesStart(title_row, h)

\* while r <= ws.max_row fails: return rows
TradesEnd ==
    /\ pc = "trades_scan"
    /\ r > Len(ws)
    /\ pc' = AfterTrades
    /\ UNCHANGED <<inputs, name_to_isin, err, tradeLocals, cashLocals, mainLocals>>

\* a title of another section: flush_batch() and break
TradesTerminator(kind) ==
    /\ kind = "terminator"
    /\ IF FlushRaises(batch_items, batch_total_fee, alloc_commission)
       THEN /\ err' = "ZeroDivisionError"
            /\ pc' = "done"
            /\ UNCHANGED <<rows, batch_items, batch_total_fee>>
       ELSE /\ rows' = FlushRows(rows, batch_items, batch_total_fee, alloc_commission)
            /\ batch_items' = BatchAfterFlush(batch_items)
            /\ batch_total_fee' = FeeAfterFlush(batch_total_fee)
            /\ pc' = AfterTrades
            /\ err' = err
    /\ UNCHANGED <<inputs, name_to_isin, header_row, idx_map, r,
                   current_issue_text, current_issue_isin, cashLocals, mainLocals>>

\* a "total for issue" row: add its commission and flush_batch()
TradesTotalRow(kind) ==
    /\ kind = "total"
    /\ LET fee == TotalRowFee(batch_total_fee, ws[r], idx_map, locale_comma) IN
       IF FlushRaises(batch_items, fee, alloc_commission)
       THEN /\ err' = "ZeroDivisionError"
            /\ pc' = "done"
            /\ batch_total_fee' = fee
            /\ UNCHANGED <<rows, batch_items, r>>
       ELSE /\ rows' = FlushRows(rows, batch_items, fee, alloc_commission)
            /\ batch_items' = BatchAfterFlush(batch_items)
            /\ batch_total_fee' = FeeAfterFlush(fee)
            /\ r' = r + 1
            /\ UNCHANGED <<pc, err>>
    /\ UNCHANGED <<inputs, name_to_isin, header_row, idx_map,
                   current_issue_text, current_issue_isin, cashLocals, mainLocals>>

\* a row with a blank deal type: the header line of an issue
TradesIssueHeader(kind) ==
    /\ kind = "issue"
    /\ LET head_text == JoinNonBlank(ws[r]) IN
       IF head_text = <<>>
       THEN /\ r' = r + 1
            /\ UNCHANGED <<current_issue_text, current_issue_isin, pc, err>>
       ELSE IF IsRaise(IssueIsin(head_text, name_to_isin))
       THEN /\ current_issue_text' = Str(head_text)
            /\ err' = IssueIsin(head_text, name_to_isin).e
            /\ pc' = "done"
            /\ UNCHANGED <<current_issue_isin, r>>
       ELSE /\ current_issue_text' = Str(head_text)
            /\ current_issue_isin' = IssueIsin(head_text, name_to_isin)
            /\ r' = r + 1
            /\ UNCHANGED <<pc, err>>
    /\ batch_items' = BatchAfterIssueHeader(batch_items)
    /\ UNCHANGED <<inputs, name_to_isin, header_row, idx_map, rows,
                   batch_total_fee, cashLocals, mainLocals>>

\* a row with a deal type but no date or no known deal type: skipped
TradesSkipRow(kind) ==
    /\ kind = "skip"
    /\ r' = r + 1
    /\ UNCHANGED <<inputs, name_to_isin, pc, err, header_row, idx_map, rows,
                   batch_items, batch_total_fee, current_issue_text,
                   current_issue_isin, cashLocals, mainLocals>>

\* a trade row: append its record, register it in the batch
TradesTradeRow(kind) ==
    /\ kind = "trade"
    /\ rows' = Append(rows, TradeRecord(ws[r], idx_map, locale_comma,
                                        current_issue_isin, current_issue_text))
    /\ batch_items' = BatchAfterTrade(batch_items, Len(rows) + 1, ws[r], idx_map,
                                      locale_comma, alloc_commission)
    /\ r' = r + 1
    /\ UNCHANGED <<inputs, name_to_isin, pc, err, header_row, idx_map,
                   batch_total_fee, current_issue_text, current_issue_isin,
                   cashLocals, mainLocals>>

\* one pass of the while loop of parse_trades_to_target
TradesRow ==
    /\ pc = "trades_scan"
    /\ r <= Len(ws)
    /\ \E kind \in {RowKind(ws[r], idx_map)} :
          \/ TradesTerminator(kind)
          \/ TradesTotalRow(kind)
          \/ TradesIssueHeader(kind)
          \/ TradesSkipRow(kind)
          \/ TradesTradeRow(kind)

-----------------------------------------------------------------------------
(* core.py: parse_cash_to_target *)

\* "kupon" in text: the word or one of its inflected forms
HasCoupon(text) == \E i \in 1..Len(text) : text[i] \in {"kupon", "kupona", "kuponu"}

\* the comment of a cash row: a str, or None without a comment column
CashComment(values, col) ==
    IF "comment" \in DOMAIN col THEN Str(norm_text(Cell(values, col, "comment")))
    ELSE None

\* (comment or "").lower()
CommentLower(comment) == IF Truthy(comment) THEN LowerText(comment.s) ELSE <<>>

\* a faulty variant of CashKind: the coupon test comes before the deposit and the
\* withdrawal tests
CashKindCouponFirst(values, col) ==
    LET op_type == LowerText(norm_text(Cell(values, col, "type")))
        date    == parse_date(Cell(values, col, "date"))
        comment == CashComment(values, col)
    IN  IF \A c \in 1..Len(values) : ~Truthy(values[c]) THEN "break"
        ELSE IF ~Truthy(date) THEN "nodate"
        ELSE IF \/ Contains(op_type, <<"spisano", "po", "sdelke">>)
                \/ Contains(op_type, <<"spisanie", "po", "sdelke">>) THEN "writeoff"
        ELSE IF \/ Contains(op_type, <<"pogashenie", "kupona">>)
                \/ HasCoupon(op_type)
                \/ HasCoupon(CommentLower(comment)) THEN "dividend"
        ELSE IF \/ Contains(op_type, <<"vvod", "ds">>)
                \/ Contains(op_type, <<"popolnenie">>) THEN "cash_in"
        ELSE IF \/ Contains(op_type, <<"vyvod", "ds">>)
                \/ Contains(op_type, <<"snyatie">>) THEN "cash_out"
        ELSE "other"

\* the branch of the loop body a cash row takes, in the order of the if
\* statements
CashKind(values, col) ==
    LET op_type == LowerText(norm_text(Cell(values, col, "type")))
        date    == parse_date(Cell(values, col, "date"))
        comment == CashComment(values, col)
    IN  IF \A c \in 1..Len(values) : ~Truthy(values[c]) THEN "break"
        ELSE IF ~Truthy(date) THEN "nodate"
        ELSE IF \/ Contains(op_type, <<"spisano", "po", "sdelke">>)
                \/ Contains(op_type, <<"spisanie", "po", "sdelke">>) THEN "writeoff"
        ELSE IF \/ Contains(op_type, <<"vvod", "ds">>)
                \/ Contains(op_type, <<"popolnenie">>) THEN "cash_in"
        ELSE IF \/ Contains(op_type, <<"vyvod", "ds">>)
                \/ Contains(op_type, <<"snyatie">>) THEN "cash_out"
        ELSE IF \/ Contains(op_type, <<"pogashenie", "kupona">>)
                \/ HasCoupon(op_type)
                \/ HasCoupon(CommentLower(comment)) THEN "dividend"
        ELSE "other"

\* the TargetRow of a Cash_In or Cash_Out row
CashMoveRecord(event, values, col, lc) ==
    LET ccy == Str(normalize_currency(norm_text(Cell(values, col, "ccy")))) IN
    TargetRow(event, parse_date(Cell(values, col, "date")), ccy, Num(1),
              RatAbs(parse_decimal(Cell(values, col, "amount"), lc)), ccy,
              Zero, None, Zero, CashComment(values, col))

\* symbol of a coupon row: isin_from_text(comment) or find_isin_by_name(...)
CouponSymbol(comment, index) ==
    LET text == IF Truthy(comment) THEN comment.s ELSE <<>>
        direct == isin_from_text(text)
    IN  IF Truthy(direct) THEN direct ELSE find_isin_by_name(text, index)

\* the TargetRow of a coupon row (map_coupon_as_price_one keeps its default)
DividendRecord(values, col, lc, index) ==
    LET amount == parse_decimal(Cell(values, col, "amount"), lc) IN
    TargetRow("Dividend", parse_date(Cell(values, col, "date")),
              CouponSymbol(CashComment(values, col), index), Num(1),
              IF IsNone(amount) THEN None ELSE RatAbs(amount),
              Str(normalize_currency(norm_text(Cell(values, col, "ccy")))),
              Zero, None, Zero, CashComment(values, col))

\* rows after one row of the cash table of the given kind
CashAppend(out, kind, values, col, lc, index) ==
    LET amount == parse_decimal(Cell(values, col, "amount"), lc) IN
    CASE kind = "cash_in" /\ Truthy(amount) ->
            Append(out, CashMoveRecord("Cash_In", values, col, lc))
      [] kind = "cash_out" /\ Truthy(amount) ->
            Append(out, CashMoveRecord("Cash_Out", values, col, lc))
      [] kind = "dividend" ->
            Append(out, DividendRecord(values, col, lc, index))
      [] OTHER -> out

\* where control goes when parse_cash_to_target returns
AfterCash == "done"

\* title_row is None: return rows
CashNoSection(title_row) ==
    /\ title_row = 0
    /\ cash_rows' = <<>>
    /\ pc' = AfterCash
    /\ UNCHANGED <<inputs, name_to_isin, err, tradeLocals, cash_col, cash_r,
                   mainLocals>>

\* find_header_below raises RuntimeError: no header in the window
CashNoHeader(title_row, h) ==
    /\ title_row # 0
    /\ ~h.found
    /\ cash_rows' = <<>>
    /\ err' = "RuntimeError"
    /\ pc' = "done"
    /\ UNCHANGED <<inputs, name_to_isin, tradeLocals, cash_col, cash_r, mainLocals>>

\* title and header found: the locals before the loop
CashStart(title_row, h) ==
    /\ title_row # 0
    /\ h.found
    /\ cash_col' = h.idx
    /\ cash_r' = h.row + 1
    /\ cash_rows' = <<>>
    /\ pc' = "cash_scan"
    /\ UNCHANGED <<inputs, name_to_isin, err, tradeLocals, mainLocals>>

\* parse_cash_to_target up to the loop
CashBegin ==
    /\ pc = "cash_start"
    /\ \E title_row \in {find_section_title(ws, "SECTION_CASH_RE")} :
       \E h \in {IF title_row = 0 THEN NoHeader
                 ELSE find_header_below(ws, title_row, HEADER_KEYS_CASH,
                                        NEEDED_CASH)} :
          \/ CashNoSection(title_row)
          \/ CashNoHeader(title_row, h)
          \/ CashStart(title_row, h)

\* while r <= ws.max_row fails: return rows
CashEnd ==
    /\ pc = "cash_scan"
    /\ cash_r > Len(ws)
    /\ pc' = AfterCash
    /\ UNCHANGED <<inputs, name_to_isin, err, tradeLocals, cashLocals, mainLocals>>

\* a row without any true cell: break, return rows
CashBreak(kind) ==
    /\ kind = "break"
    /\ pc' = AfterCash
    /\ UNCHANGED <<inputs, name_to_isin, err, tradeLocals, cashLocals, mainLocals>>

\* any other row: append what its kind appends, r += 1
CashClassify(kind) ==
    /\ kind # "break"
    /\ cash_rows' = CashAppend(cash_rows, kind, ws[cash_r], cash_col, locale_comma,
                               name_to_isin)
    /\ cash_r' = cash_r + 1
    /\ UNCHANGED <<inputs, name_to_isin, pc, err, tradeLocals, cash_col, mainLocals>>

\* one pass of the while loop of parse_cash_to_target
CashRow ==
    /\ pc = "cash_scan"
    /\ cash_r <= Len(ws)
    /\ \E kind \in {CashKind(ws[cash_r], cash_col)} :
          \/ CashBreak(kind)
          \/ CashClassify(kind)

\* name_to_isin = parse_portfolio_isin_map(ws), then the cash-flow classifier
BuildIndex ==
    /\ pc = "index"
    /\ \E res \in {parse_portfolio_isin_map(ws)} :
          IF res.raised # NoErr
          THEN /\ err' = res.raised
               /\ pc' = "done"
               /\ UNCHANGED name_to_isin
          ELSE /\ name_to_isin' = res.mapping
               /\ pc' = "cash_start"
               /\ err' = err
    /\ UNCHANGED <<inputs, tradeLocals, cashLocals, mainLocals>>

-----------------------------------------------------------------------------
(* broker_to_target.py: main *)

\* name_to_isin, regnum_to_isin = parse_portfolio_isin_map(ws): the dict is
\* unpacked as the sequence of its keys, which must be exactly two
MainPortfolio ==
    /\ pc = "main_portfolio"
    /\ \E res \in {parse_portfolio_isin_map(ws)} :
          IF res.raised # NoErr
          THEN /\ err' = res.raised
               /\ pc' = "done"
               /\ UNCHANGED <<name_to_isin, regnum_to_isin>>
          ELSE IF Len(res.mapping.items) # 2
          THEN /\ err' = "ValueError"
               /\ pc' = "done"
               /\ UNCHANGED <<name_to_isin, regnum_to_isin>>
          ELSE /\ name_to_isin' = StrObj(res.mapping.items[1][1])
               /\ regnum_to_isin' = StrObj(res.mapping.items[2][1])
               /\ pc' = "trades_start"
               /\ err' = err
    /\ UNCHANGED <<inputs, tradeLocals, cashLocals, all_rows>>

\* parse_cash_to_target(..., regnum_to_isin = ...): the function has no such
\* parameter, the call raises TypeError
MainCashCall ==
    /\ pc = "main_cash"
    /\ include_cash
    /\ err' = "TypeError"
    /\ pc' = "done"
    /\ UNCHANGED <<inputs, name_to_isin, tradeLocals, cashLocals, mainLocals>>

\* without --include-cash: all_rows = trade_rows + cash_rows
MainMerge ==
    /\ pc = "main_cash"
    /\ ~include_cash
    /\ all_rows' = rows \o cash_rows
    /\ pc' = "done"
    /\ UNCHANGED <<inputs, name_to_isin, err, tradeLocals, cashLocals, regnum_to_isin>>

-----------------------------------------------------------------------------
(* The worksheets the model is run on *)

\* width of the grid (ws.max_column)
NCols == 8
\* most rows below the trades header, rows of the common kinds
MaxBody == 3
\* most rows below the trades header, rows of every kind
MaxMixed == 2

\* a row of NCols cells: the given cells, then empty cells
Pad(cells) == [c \in 1..NCols |-> IF c <= Len(cells) THEN cells[c] ELSE None]

TitleTrades == Pad(<<Str(<<"SDELKI", "S", "CENNYMI", "BUMAGAMI">>)>>)
TitlePortfolio == Pad(<<Str(<<"sostoyanie", "portfelya", "cennyh", "bumag">>)>>)
TitleCash ==
    Pad(<<Str(<<"dvizhenie", "denezhnyh", "sredstv", "po", "schetu", "za",
                "otchetnyj", "period">>)>>)
TitleClearance == Pad(<<Str(<<"ispolnenie", "obyazatelstv", "po", "sdelke">>)>>)

HeaderTrades ==
    Pad(<<Str(<<"data", "sdelki">>), Str(<<"vid", "sdelki">>),
          Str(<<"cena", "odnoj", "cb">>), Str(<<"kolichestvo", "cb">>),
          Str(<<"summa", "sdelki">>), Str(<<"valyuta", "summy">>),
          Str(<<"komissiya", "ts">>), Str(<<"komissiya", "brokera">>)>>)

\* a header with other synonyms, "summa" in two cells, no commission columns
HeaderTradesAlt ==
    Pad(<<Str(<<"vid", "sdelki">>), Str(<<"data", "sdelki">>),
          Str(<<"summa">>), Str(<<"cena", "odnoj">>), Str(<<"kolichestvo">>),
          Str(<<"valyuta", "summy">>), Str(<<"summa", "sdelki">>)>>)

\* a header row that lacks the currency of the amount
HeaderTradesPartial ==
    Pad(<<Str(<<"data", "sdelki">>), Str(<<"vid", "sdelki">>),
          Str(<<"cena", "odnoj", "cb">>), Str(<<"kolichestvo", "cb">>),
          Str(<<"summa", "sdelki">>)>>)

Filler == Pad(<<Str(<<"otchet", "brokera">>)>>)
BlankRow == Pad(<<>>)

IssueA == Pad(<<Str(<<"Bond", "ABC", "RU000A0JWM18">>)>>)
IssueB == Pad(<<None, None, Str(<<"Sberbank", "ao">>)>>)

Buy1000 ==
    Pad(<<Str(<<"15.01.2024">>), Str(<<"Pokupka">>), Num(100), Num(10),
          Num(1000), Str(<<"RUR">>)>>)
Sell3000 ==
    Pad(<<DateTime(2024, 1, 16), Str(<<" ", "prodazha", " ">>), Num(100), Num(30),
          Num(-3000), Str(<<"rub">>)>>)
BuyZero ==
    Pad(<<Str(<<"17-01-2024">>), Str(<<"pokupka">>), Num(0), Num(5),
          Num(0), Str(<<"usd">>)>>)
BuyFee ==
    Pad(<<Num(45000), Str(<<"pokupka">>), Num(200), Num(10),
          Str(<<"1", "000">>), Str(<<"RUR">>), Num(3), Num(2)>>)
BuyNoAmount ==
    Pad(<<Str(<<"2024-01-18">>), Str(<<"pokupka">>), Num(100), Num(10),
          Str(<<"-">>), Str(<<>>)>>)
NoiseRow ==
    Pad(<<Str(<<"15.01.2024">>), Str(<<"repo">>), Num(100), Num(10),
          Num(1000), Str(<<"RUR">>)>>)
Total40 ==
    Pad(<<Str(<<"ITOGO", "PO", "VYPUSKU">>), None, None, None, None, None,
          Str(<<"40,0">>)>>)
TotalNone == Pad(<<Str(<<"itogo", "po", "vypusku">>), None, None, Num(40)>>)

\* the common rows of a trades table
CoreRows == {IssueB, Buy1000, Sell3000, BuyFee, NoiseRow, Total40}

\* the rows a trades table is made of
BodyRows == CoreRows \cup {IssueA, BuyZero, BuyNoAmount, TitleCash}

Bodies ==
    UNION {[1..n -> CoreRows] : n \in 0..MaxBody}
    \cup UNION {[1..n -> BodyRows] : n \in 0..MaxMixed}

RECURSIVE Repeat(_, _)
Repeat(row, n) == IF n = 0 THEN <<>> ELSE <<row>> \o Repeat(row, n - 1)

SampleBody == <<IssueA, Buy1000, Sell3000, Total40>>

\* worksheets with the trades section in other shapes
OddTradeSheets ==
    { <<>>,
      <<HeaderTrades, Buy1000>>,
      <<TitleTrades>>,
      <<TitleTrades, Buy1000, Total40>>,
      <<TitleTrades, HeaderTradesPartial, Buy1000>>,
      <<Filler, TitleTrades, TitleTrades, HeaderTrades>> \o SampleBody,
      <<TitleTrades, HeaderTradesPartial, HeaderTradesAlt, HeaderTrades, Buy1000>>,
      <<TitleTrades, Filler, HeaderTradesAlt, IssueB, Buy1000, Total40>>,
      <<TitleTrades, HeaderTrades, IssueA, BlankRow, Buy1000, TotalNone, IssueB,
        BlankRow, Sell3000, Total40, TitleClearance, Buy1000>>,
      <<TitleTrades, HeaderTrades, IssueA, Buy1000, IssueB, Sell3000, Total40,
        BuyZero, TitlePortfolio>>,
      <<Filler, TitleTrades>> \o Repeat(Filler, Lookahead - 1)
          \o <<HeaderTrades>> \o SampleBody,
      <<Filler, TitleTrades>> \o Repeat(Filler, Lookahead)
          \o <<HeaderTrades>> \o SampleBody,
      <<TitleTrades>> \o Repeat(BlankRow, Lookahead) \o <<HeaderTrades, TitleTrades,
          HeaderTradesAlt>> \o SampleBody }

TradeSheets ==
    {<<TitleTrades, HeaderTrades>> \o b : b \in Bodies} \cup OddTradeSheets

\* the index the classifiers are run with
SampleIndex ==
    DictOf(<< <<(<<"gazprom">>), (<<"RU0007661625">>)>>,
              <<(<<"sberbank">>), (<<"RU0009029540">>)>> >>)

\* the portfolio section
HeaderPortfolio == Pad(<<Str(<<"naimenovanie", "cb">>), Str(<<"ISIN">>)>>)
PSber == Pad(<<Str(<<"Sberbank">>), Str(<<"RU0009029540">>)>>)
PGazprom == Pad(<<Str(<<"Gazprom">>), Str(<<"kod", "ru0007661625">>)>>)
PBond == Pad(<<Str(<<"Bond", "ABC">>), Str(<<"RU000A0JWM18">>)>>)
PNameOnly == Pad(<<Str(<<"vsego">>)>>)
PStray == Pad(<<None, None, Str(<<"otchet">>)>>)

PortfolioNone == <<>>
PortfolioNoHeader == <<TitlePortfolio, Filler>>
Portfolio0 == <<TitlePortfolio, HeaderPortfolio, PNameOnly, BlankRow>>
Portfolio1 == <<TitlePortfolio, HeaderPortfolio, PSber, BlankRow>>
Portfolio2 == <<TitlePortfolio, HeaderPortfolio, PSber, PStray, PGazprom, BlankRow>>
Portfolio3 == <<TitlePortfolio, HeaderPortfolio, PSber, PGazprom, PBond, PSber, BlankRow>>

\* the cash-movement section
\* most rows below the cash header
MaxCash == 2

HeaderCash ==
    Pad(<<Str(<<"Data">>), Str(<<"tip", "operacii">>), Str(<<"Summa">>),
          Str(<<"valyuta">>), Str(<<"kommentarij">>)>>)
HeaderCashNoComment ==
    Pad(<<Str(<<"valyuta">>), Str(<<"Summa">>), Str(<<"tip", "operacii">>),
          Str(<<"Data">>)>>)

Deposit500 ==
    Pad(<<Str(<<"15.01.2024">>), Str(<<"Vvod", "DS">>), Num(500), Str(<<"USD">>)>>)
DepositStr ==
    Pad(<<DateTime(2024, 1, 16), Str(<<"popolnenie", "scheta">>), Str(<<"40,0">>),
          Str(<<"rur">>), Str(<<"kupon">>)>>)
DepositZero ==
    Pad(<<Str(<<"15.01.2024">>), Str(<<"vvod", "ds">>), Num(0), Str(<<"RUB">>),
          Str(<<"Kupon", "Sberbank">>)>>)
Withdrawal ==
    Pad(<<Str(<<"17-01-2024">>), Str(<<"Vyvod", "DS">>), Num(-7), Str(<<"RUB">>),
          Str(<<"kupon">>)>>)
WriteOff ==
    Pad(<<Str(<<"2024-01-18">>), Str(<<"spisano", "po", "sdelke">>), Num(-1000),
          Str(<<"RUB">>), Str(<<"vvod", "ds", "kupon">>)>>)
Coupon ==
    Pad(<<Num(45000), Str(<<"pogashenie", "kupona">>), Num(40), Str(<<"RUB">>),
          Str(<<"Sberbank", "ao">>)>>)
CouponByComment ==
    Pad(<<Str(<<"15.01.2024">>), Str(<<"zachislenie">>), None, Str(<<"RUB">>),
          Str(<<"Kupon", "ru000a0jwm18">>)>>)
OtherCash ==
    Pad(<<Str(<<"15.01.2024">>), Str(<<"nalog">>), Num(-5), Str(<<"RUB">>)>>)
NoDateCash ==
    Pad(<<None, Str(<<"Vvod", "DS">>), Num(500), Str(<<"USD">>)>>)

CashBodyRows ==
    {Deposit500, DepositStr, DepositZero, Withdrawal, WriteOff, Coupon,
     CouponByComment, OtherCash, NoDateCash, BlankRow}

CashBodies == UNION {[1..n -> CashBodyRows] : n \in 0..MaxCash}

CashSheets ==
    {p \o <<TitleCash, HeaderCash>> \o b :
        p \in {PortfolioNone, Portfolio2, PortfolioNoHeader}, b \in CashBodies}
    \cup
    { <<Filler>>,
      <<TitleCash>>,
      <<TitleCash, Deposit500, Coupon>>,
      <<TitleCash, Filler, HeaderCashNoComment,
        Pad(<<Str(<<"USD">>), Num(500), Str(<<"Vvod", "DS">>), Str(<<"15.01.2024">>)>>),
        Pad(<<Str(<<"RUB">>), Num(40), Str(<<"kupon">>), Str(<<"16.01.2024">>)>>)>>,
      <<TitleCash>> \o Repeat(Filler, Lookahead) \o <<HeaderCash, Deposit500>> }

\* worksheets for the entry point
\* most rows below the trades header in a full statement
MaxMainBody == 2

MainBodyRows == {IssueA, IssueB, Buy1000, Sell3000, Total40, NoiseRow}

MainBodies == UNION {[1..n -> MainBodyRows] : n \in 0..MaxMainBody}

MainSheets ==
    {p \o t \o c :
        p \in {PortfolioNone, Portfolio0, Portfolio1, Portfolio2, Portfolio3},
        t \in {<<TitleTrades, HeaderTrades>> \o b : b \in MainBodies}
              \cup {<<>>, <<TitleTrades, Buy1000>>},
        c \in {<<>>, <<TitleCash, HeaderCash, Deposit500, Coupon>>}}

Idle ==
    /\ err = NoErr
    /\ header_row = 0
    /\ idx_map = <<>>
    /\ r = 0
    /\ rows = <<>>
    /\ batch_items = <<>>
    /\ batch_total_fee = Zero
    /\ current_issue_text = None
    /\ current_issue_isin = None
    /\ cash_col = <<>>
    /\ cash_r = 0
    /\ cash_rows = <<>>
    /\ regnum_to_isin = None
    /\ all_rows = <<>>

\* parse_trades_to_target(ws, name_to_isin, alloc_commission, locale_comma)
Init ==
    /\ mode = "trades"
    /\ pc = "trades_start"
    /\ ws \in TradeSheets
    /\ alloc_commission \in BOOLEAN
    /\ locale_comma = TRUE
    /\ include_cash = FALSE
    /\ name_to_isin = SampleIndex
    /\ Idle

Next ==
    \/ TradesBegin
    \/ TradesRow
    \/ TradesEnd

Spec == Init /\ [][Next]_vars

\* name_to_isin = parse_portfolio_isin_map(ws);
\* parse_cash_to_target(ws, name_to_isin, locale_comma)
InitCash ==
    /\ mode = "cash"
    /\ pc = "index"
    /\ ws \in CashSheets
    /\ alloc_commission = FALSE
    /\ locale_comma \in BOOLEAN
    /\ include_cash = TRUE
    /\ name_to_isin = DictOf(<<>>)
    /\ Idle

NextCash ==
    \/ BuildIndex
    \/ CashBegin
    \/ CashRow
    \/ CashEnd

SpecCash == InitCash /\ [][NextCash]_vars

\* main() with the worksheet loaded
InitMain ==
    /\ mode = "main"
    /\ pc = "main_portfolio"
    /\ ws \in MainSheets
    /\ alloc_commission \in BOOLEAN
    /\ locale_comma = TRUE
    /\ include_cash \in BOOLEAN
    /\ name_to_isin = DictOf(<<>>)
    /\ Idle

NextMain ==
    \/ MainPortfolio
    \/ TradesBegin
    \/ TradesRow
    \/ TradesEnd
    \/ MainCashCall
    \/ MainMerge

SpecMain == InitMain /\ [][NextMain]_vars

-----------------------------------------------------------------------------
(* Properties *)

RatSub(a, b) == RatAdd(a, Rat(-b.n, b.d))

\* the first row below the trades header that is the title of another section,
\* Len(ws) + 1 when there is none
FirstTerminator ==
    LET t == {p \in (header_row + 1)..Len(ws) :
                \/ ReSearch("SECTION_CASH_RE", JoinBar(ws[p]))
                \/ ReSearch("SECTION_PORTFOLIO_RE", JoinBar(ws[p]))
                \/ ReSearch("SECTION_CLEARANCE_RE", JoinBar(ws[p]))}
    IN  IF t = {} THEN Len(ws) + 1 ELSE CHOOSE p \in t : \A q \in t : p <= q

\* row p is a subtotal ("total for issue") row
Subtotal(p) == Contains(LowerText(JoinBar(ws[p])), <<"itogo", "po", "vypusku">>)

\* the text of the deal-type cell of row p
DealTypeText(p) == norm_text(ws[p][idx_map["deal_type"] + 1])

\* a row that yields a trade record when it lies before the first terminator:
\* no subtotal, a deal type that maps to Buy/Sell, a parseable deal date
Qualifies(p) ==
    /\ ~Subtotal(p)
    /\ LowerText(DealTypeText(p)) \in {<<"pokupka">>, <<"prodazha">>}
    /\ parse_date(ws[p][idx_map["deal_date"] + 1]) # None

\* a row that is the header line of an issue when it lies before the first
\* terminator: blank deal type, some text, no subtotal
IssueHeader(p) ==
    /\ ~Subtotal(p)
    /\ DealTypeText(p) = <<>>
    /\ \E c \in 1..Len(ws[p]) : norm_text(ws[p][c]) # <<>>

RECURSIVE QualifyingFrom(_, _)
\* the qualifying rows among p..last, in row order
QualifyingFrom(p, last) ==
    IF p > last THEN <<>>
    ELSE IF Qualifies(p) THEN <<p>> \o QualifyingFrom(p + 1, last)
    ELSE QualifyingFrom(p + 1, last)

\* the rows below the header, up to row upto and before the first terminator,
\* that yield a trade record: the k-th record comes from the k-th of them
TradePositions(upto) ==
    QualifyingFrom(header_row + 1, Min(Min(upto, Len(ws)), FirstTerminator - 1))

RECURSIVE IssueAbove(_)
\* the last issue-header row above row p, 0 when there is none
IssueAbove(p) ==
    IF p - 1 <= header_row THEN 0
    ELSE IF IssueHeader(p - 1) THEN p - 1
    ELSE IssueAbove(p - 1)

\* the scan is at a row
AtRow == pc = "trades_scan" /\ r <= Len(ws)

\* the scan is at a subtotal row
AtSubtotal == AtRow /\ r < FirstTerminator /\ Subtotal(r)

\* the commission a subtotal row reports: commission TS + commission broker
ReportedFee(p) ==
    RatAdd(OrZero(parse_decimal(Cell(ws[p], idx_map, "comm_ts"), locale_comma)),
           OrZero(parse_decimal(Cell(ws[p], idx_map, "comm_broker"), locale_comma)))

RECURSIVE SumSeq(_)
SumSeq(q) == IF q = <<>> THEN Zero ELSE RatAdd(Head(q), SumSeq(Tail(q)))

\* the absolute trade amounts of the candidates of the batch
BatchAmounts == [k \in 1..Len(batch_items) |-> batch_items[k][2]]

\* the record a candidate of the batch refers to
CandidateRow(k) == batch_items[k][1] + 1

\* by how much the step raises the fee of record i
FeeIncrease(i) == RatSub(OrZero(rows'[i].FeeTax), OrZero(rows[i].FeeTax))

\* C1. Commission-allocation conservation: with allocCommission enabled, when a
\* subtotal row reporting a non-zero fee F flushes a batch whose candidates have
\* absolute amounts a1..an with sum T > 0, the fee of candidate i rises by
\* exactly F * (ai / T), and the increases sum to F.
C1_Conservation ==
    [][ (/\ AtSubtotal
         /\ alloc_commission
         /\ ReportedFee(r).n # 0
         /\ batch_items # <<>>
         /\ SumSeq(BatchAmounts).n > 0)
        => LET F == ReportedFee(r)
               T == SumSeq(BatchAmounts)
           IN  /\ \A k \in 1..Len(batch_items) :
                     FeeIncrease(CandidateRow(k))
                        = Rat(F.n * BatchAmounts[k].n * T.d,
                              F.d * BatchAmounts[k].d * T.n)
               /\ SumSeq([k \in 1..Len(batch_items) |->
                             FeeIncrease(CandidateRow(k))]) = F ]_vars

\* amounts 1000 and 3000 with F = 40 have received the fees 10 and 30
C1_Witness ==
    /\ alloc_commission
    /\ Len(rows) = 2
    /\ rows[1].FeeTax = Num(10)
    /\ rows[2].FeeTax = Num(30)
    /\ batch_items = <<>>

\* the trades title: a row whose text has the words of the title
TradesTitleAt(i) ==
    Contains(LowerText(JoinBar(ws[i])), <<"sdelki", "s", "cennymi", "bumagami">>)

\* row i resolves header field f: a cell has one of the synonyms of f
ResolvesField(i, f) ==
    \E c \in 1..Len(ws[i]) : \E v \in HEADER_KEYS_TRADES[f] :
        Contains(LowerText(norm_text(ws[i][c])), v)

\* the worksheet has a trades title followed, within the lookahead window, by a
\* row that resolves every required field
TradesResolvable ==
    \E t \in 1..Len(ws) :
        /\ TradesTitleAt(t)
        /\ \A u \in 1..(t - 1) : ~TradesTitleAt(u)
        /\ \E i \in (t + 1)..Len(ws) :
              /\ i <= t + Lookahead
              /\ \A f \in NEEDED_TRADES : ResolvesField(i, f)

\* C2. The trade parse fails with a structural error, returning no records,
\* exactly for the worksheets without a trades title or without a resolvable
\* header in the lookahead window below it; for every other worksheet it
\* completes without error.
C2_StructuralError ==
    /\ pc # "done" => err = NoErr
    /\ pc = "trades_scan" => TradesResolvable
    /\ pc = "done" =>
          IF TradesResolvable THEN err = NoErr
          ELSE err = "RuntimeError" /\ rows = <<>>

\* the parse of a worksheet whose header row lies below the window has failed
C2_Witness ==
    /\ pc = "done"
    /\ err = "RuntimeError"
    /\ \E t \in 1..Len(ws) :
          /\ TradesTitleAt(t)
          /\ \E i \in (t + Lookahead + 1)..Len(ws) :
                \A f \in NEEDED_TRADES : ResolvesField(i, f)

\* C3. Soft-failure asymmetry: building the portfolio index and classifying the
\* cash flows never end in an error, whatever the worksheet holds; a missing
\* section or header yields an empty result.
C3_NoSoftFailureError == mode = "cash" => err = NoErr

\* C4. Degenerate allocation: with allocCommission enabled, when a flush has a
\* non-zero fee F and a non-empty batch whose absolute amounts sum to T = 0, the
\* denominator is 1: candidate i gets F * (ai / 1), the flush ends without an
\* error and the batch is cleared.
C4_DegenerateTotal ==
    [][ (/\ AtSubtotal
         /\ alloc_commission
         /\ ReportedFee(r).n # 0
         /\ batch_items # <<>>
         /\ SumSeq(BatchAmounts).n = 0)
        => /\ err' = NoErr
           /\ pc' = "trades_scan"
           /\ \A k \in 1..Len(batch_items) :
                 FeeIncrease(CandidateRow(k))
                    = RatMul(ReportedFee(r), BatchAmounts[k])
           /\ \A k \in 1..Len(batch_items) :
                 rows'[CandidateRow(k)].FeeTax # None
           /\ batch_items' = <<>>
           /\ batch_total_fee' = Zero ]_vars

\* a subtotal row with a fee has been passed and its only candidates, trades
\* of amount 0, carry the fee 0.0 in place of None
C4_Witness ==
    /\ alloc_commission
    /\ pc = "trades_scan"
    /\ err = NoErr
    /\ batch_items = <<>>
    /\ r > header_row + 1
    /\ Subtotal(r - 1)
    /\ ReportedFee(r - 1).n # 0
    /\ rows # <<>>
    /\ \A k \in 1..Len(rows) : rows[k].FeeTax = Zero

\* the cell of a cash row under a header field
CashCell(p, name) == ws[p][cash_col[name] + 1]

\* the lower-cased operation type and comment of cash row p
OpText(p) == LowerText(norm_text(CashCell(p, "type")))
NoteText(p) ==
    IF "comment" \in DOMAIN cash_col THEN LowerText(norm_text(CashCell(p, "comment")))
    ELSE <<>>

\* a word of the text is "kupon" or an inflected form of it
CouponWord(text) == \E i \in 1..Len(text) : text[i] \in {"kupon", "kupona", "kuponu"}

\* the amount of cash row p is present and non-zero
HasAmount(p) ==
    LET a == parse_decimal(CashCell(p, "amount"), locale_comma) IN
    a # None /\ a.n # 0

\* the record kind the priority rules give cash row p, "none" for no record
ExpectedEvent(p) ==
    IF parse_date(CashCell(p, "date")) = None THEN "none"
    ELSE IF \/ Contains(OpText(p), <<"spisano", "po", "sdelke">>)
            \/ Contains(OpText(p), <<"spisanie", "po", "sdelke">>) THEN "none"
    ELSE IF \/ Contains(OpText(p), <<"vvod", "ds">>)
            \/ Contains(OpText(p), <<"popolnenie">>)
         THEN IF HasAmount(p) THEN "Cash_In" ELSE "none"
    ELSE IF \/ Contains(OpText(p), <<"vyvod", "ds">>)
            \/ Contains(OpText(p), <<"snyatie">>)
         THEN IF HasAmount(p) THEN "Cash_Out" ELSE "none"
    ELSE IF CouponWord(OpText(p)) \/ CouponWord(NoteText(p)) THEN "Dividend"
    ELSE "none"

\* C5. Cash-flow classification priority: a row of the cash table yields at most
\* one record, of the kind of the first matching rule: no date or written off
\* for a trade -> none; deposit wording -> Cash_In if the amount is present
\* and non-zero; withdrawal wording -> Cash_Out under the same condition;
\* "coupon" in the operation type or the comment -> Dividend; else none.
\* Cash_In and Cash_Out have Symbol = Currency, Price = 1, Quantity = |amount|
\* and a zero fee.
C5_CashPriority ==
    [][ (pc = "cash_scan" /\ cash_r <= Len(ws))
        => LET e == ExpectedEvent(cash_r) IN
           IF e = "none" THEN cash_rows' = cash_rows
           ELSE /\ Len(cash_rows') = Len(cash_rows) + 1
                /\ SubSeq(cash_rows', 1, Len(cash_rows)) = cash_rows
                /\ LET rec == cash_rows'[Len(cash_rows')] IN
                   /\ rec.Event = e
                   /\ e \in {"Cash_In", "Cash_Out"} =>
                         /\ rec.Symbol = rec.Currency
                         /\ rec.Price = Num(1)
                         /\ rec.Quantity
                              = RatAbs(parse_decimal(CashCell(cash_r, "amount"),
                                                     locale_comma))
                         /\ rec.FeeTax = Zero ]_vars

\* a withdrawal whose comment says "kupon" has become a Cash_Out, and a
\* deposit with amount 0 and such a comment has left no record
C5_Witness ==
    /\ pc = "done"
    /\ Len(cash_rows) = 1
    /\ cash_rows[1].Event = "Cash_Out"
    /\ cash_rows[1].Quantity = Num(7)
    /\ cash_rows[1].Note = Str(<<"kupon">>)
    /\ \E p \in 1..Len(ws) : ws[p] = DepositZero

\* C6. End-to-end data flow: for a worksheet with a resolvable trades section
\* the entry point builds the issue index from the portfolio section, hands it
\* to the trade scan (and to the cash classifier when cash is enabled), and
\* ends without an error with the trade records followed by the cash-flow
\* records, the latter empty when cash is disabled.
C6_EndToEnd ==
    (mode = "main" /\ TradesResolvable) =>
       /\ err = NoErr
       /\ pc \in {"trades_start", "trades_scan", "main_cash", "done"} =>
             name_to_isin = parse_portfolio_isin_map(ws).mapping
       /\ pc = "done" =>
             /\ all_rows = rows \o cash_rows
             /\ ~include_cash => cash_rows = <<>>

\* C7. Issue-scoped batches: the batch a subtotal row flushes holds only trades
\* of the issue block the row closes; an issue-header row starts a new, empty
\* batch, so no trade above the latest issue header gets a share of the fee.
C7_BatchPerIssue ==
    [][ /\ (AtRow /\ r < FirstTerminator /\ IssueHeader(r)) => batch_items' = <<>>
        /\ AtSubtotal =>
              LET Q == TradePositions(r) IN
              \A k \in 1..Len(rows) :
                 rows'[k].FeeTax # rows[k].FeeTax => Q[k] > IssueAbove(r) ]_vars

\* the Buy/Sell event of the deal type of row p
EventOf(p) ==
    IF LowerText(DealTypeText(p)) = <<"pokupka">> THEN "Buy" ELSE "Sell"

\* C8. Row classification: every row below the trades header is handled as
\* exactly one of terminator, subtotal, issue header, trade or skipped; a
\* record is emitted exactly for the rows before the first terminator that
\* are no subtotal, have a deal type mapping to Buy/Sell and a parseable
\* date; the records are as many as these rows and in their order.
C8_RowClassification ==
    (pc \in {"trades_scan", "done"} /\ err = NoErr /\ header_row > 0) =>
       LET Q == TradePositions(IF pc = "done" THEN Len(ws) ELSE r - 1) IN
       /\ Len(rows) = Len(Q)
       /\ \A k \in 1..Len(rows) :
             LET p == Q[k] IN
             /\ rows[k].Event = EventOf(p)
             /\ rows[k].Date = parse_date(ws[p][idx_map["deal_date"] + 1])
             /\ rows[k].Price
                  = parse_decimal(ws[p][idx_map["price"] + 1], locale_comma)
             /\ rows[k].Quantity
                  = parse_decimal(ws[p][idx_map["qty"] + 1], locale_comma)
       /\ pc = "done" => (r > Len(ws) \/ r = FirstTerminator)
       /\ pc = "trades_scan" => r <= FirstTerminator

\* the scan is over, two records were emitted and a row with an unknown deal
\* type below the header was skipped
C8_Witness ==
    /\ mode = "trades"
    /\ pc = "done"
    /\ err = NoErr
    /\ Len(rows) = 2
    /\ \E p \in (header_row + 1)..(FirstTerminator - 1) : ws[p] = NoiseRow

\* the divisor of a flush: the sum of the amounts, 1 when the sum is zero
Denominator ==
    IF SumSeq(BatchAmounts).n = 0 THEN Num(1) ELSE SumSeq(BatchAmounts)

\* C9. Flush frame: a flush adds to the fee of each registered candidate its
\* share and changes nothing else: no record is added, removed or reordered,
\* no field but FeeTax changes, and only candidates change. A record with a
\* non-zero commission of its own is never a candidate and keeps that fee.
\* Without allocCommission no fee ever changes.
C9_FlushFrame ==
    [][ pc = "trades_scan" =>
        LET Q == TradePositions(r) IN
        /\ Len(rows') >= Len(rows)
        /\ AtSubtotal => Len(rows') = Len(rows)
        /\ \A k \in 1..Len(rows) :
              /\ [rows'[k] EXCEPT !.FeeTax = None] = [rows[k] EXCEPT !.FeeTax = None]
              /\ rows'[k].FeeTax # rows[k].FeeTax =>
                    /\ alloc_commission
                    /\ AtSubtotal
                    /\ \E j \in 1..Len(batch_items) :
                          /\ CandidateRow(j) = k
                          /\ rows'[k].FeeTax
                               = RatAdd(OrZero(rows[k].FeeTax),
                                        RatDiv(RatMul(ReportedFee(r), BatchAmounts[j]),
                                               Denominator))
              /\ ReportedFee(Q[k]).n # 0 =>
                    /\ rows[k].FeeTax = ReportedFee(Q[k])
                    /\ rows'[k].FeeTax = ReportedFee(Q[k])
                    /\ \A j \in 1..Len(batch_items) : CandidateRow(j) # k ]_vars

\* a subtotal row was flushed: the record with its own commission 3 + 2 kept
\* the fee 5, the other record received the whole fee 40
C9_Witness ==
    /\ alloc_commission
    /\ Len(rows) = 2
    /\ rows[1].FeeTax = Num(5)
    /\ rows[2].FeeTax = Num(40)
    /\ batch_items = <<>>

\* C10. Issue-context propagation: every trade record carries as Note the text
\* and as Symbol the resolved symbol of the nearest issue-header row above its
\* row, and None for both when there is no such row.
C10_IssueContext ==
    (pc \in {"trades_scan", "done"} /\ err = NoErr /\ header_row > 0) =>
       LET Q == TradePositions(Len(ws)) IN
       \A k \in 1..Len(rows) :
          LET h == IssueAbove(Q[k]) IN
          IF h = 0
          THEN rows[k].Note = None /\ rows[k].Symbol = None
          ELSE /\ rows[k].Note = Str(JoinNonBlank(ws[h]))
               /\ rows[k].Symbol
                    = OrNone(IssueIsin(JoinNonBlank(ws[h]), name_to_isin))

\* two records of two issues: the second header replaced the context of the
\* first, and both symbols were resolved
C10_Witness ==
    /\ mode = "trades"
    /\ Len(rows) = 2
    /\ rows[1].Symbol # None
    /\ rows[2].Symbol # None
    /\ rows[1].Symbol # rows[2].Symbol
    /\ rows[1].Note # rows[2].Note

RECURSIVE SubtotalAbove(_)
\* the last subtotal row above row p, 0 when there is none
SubtotalAbove(p) ==
    IF p - 1 <= header_row THEN 0
    ELSE IF Subtotal(p - 1) THEN p - 1
    ELSE SubtotalAbove(p - 1)

\* the scan is at a row that flushes: a subtotal row or the terminator
AtFlush == AtRow /\ (r = FirstTerminator \/ AtSubtotal)

\* C11. After every flush, at a subtotal row or at a terminating section
\* title, the candidate list is empty and the accumulated fee is zero, whether
\* or not an allocation took place; so every candidate of the batch comes from
\* a row below the last subtotal row, and no record is a candidate twice.
C11_FlushClears ==
    [][ pc = "trades_scan" =>
        LET Q == TradePositions(r) IN
        /\ AtFlush =>
              /\ batch_items' = <<>>
              /\ batch_total_fee' = Zero
              /\ err' = NoErr
        /\ \A j \in 1..Len(batch_items) :
              /\ CandidateRow(j) <= Len(rows)
              /\ Q[CandidateRow(j)] > SubtotalAbove(r)
              /\ \A i \in 1..Len(batch_items) :
                    i # j => CandidateRow(i) # CandidateRow(j) ]_vars

\* the terminator has flushed a batch that held a candidate while the fee was
\* zero: nothing was allocated, and the batch is empty
C11_Witness ==
    /\ alloc_commission
    /\ pc = "done"
    /\ err = NoErr
    /\ header_row > 0
    /\ r = FirstTerminator
    /\ r <= Len(ws)
    /\ ws[r - 1] = Buy1000
    /\ Len(rows) = 1
    /\ rows[1].FeeTax = None
    /\ batch_items = <<>>
    /\ batch_total_fee = Zero

\* the first row with the trades title, 0 when there is none
FirstTradesTitle ==
    LET T == {t \in 1..Len(ws) : TradesTitleAt(t)} IN
    IF T = {} THEN 0 ELSE CHOOSE t \in T : \A u \in T : t <= u

\* the rows find_header_below may return for a title at row t
Window(t) == {i \in (t + 1)..Len(ws) : i <= t + Lookahead}

\* row i resolves every required field of the trades header
HeaderAt(i) == \A f \in NEEDED_TRADES : ResolvesField(i, f)

\* the column (1-based) of the leftmost cell of row i with a synonym of f
LeftmostColumn(i, f) ==
    LET C == {c \in 1..Len(ws[i]) :
                \E v \in HEADER_KEYS_TRADES[f] :
                    Contains(LowerText(norm_text(ws[i][c])), v)}
    IN  CHOOSE c \in C : \A c2 \in C : c <= c2

\* the field -> column map of row i: every resolved field, required or not,
\* with its leftmost column, 0-based
ExpectedIdx(i) ==
    [f \in {g \in DOMAIN HEADER_KEYS_TRADES : ResolvesField(i, g)}
        |-> LeftmostColumn(i, f) - 1]

\* C12. Header lookup window: below a title at row t the header search returns
\* the first row among t+1 .. min(last row, t+lookahead) that resolves every
\* required field, with the map of that row in which each field has the
\* leftmost column holding one of its synonyms; it returns no row outside the
\* window and fails with an error when no row of the window qualifies.
C12_HeaderWindow ==
    (mode = "trades" /\ pc # "trades_start" /\ FirstTradesTitle > 0) =>
       LET W == Window(FirstTradesTitle) IN
       IF \E i \in W : HeaderAt(i)
       THEN /\ err = NoErr
            /\ header_row \in W
            /\ HeaderAt(header_row)
            /\ \A i \in W : i < header_row => ~HeaderAt(i)
            /\ idx_map = ExpectedIdx(header_row)
       ELSE /\ pc = "done"
            /\ err = "RuntimeError"
            /\ header_row = 0

\* the search passed a row lacking a required field and returned the next
\* one, whose word for the amount stands in two cells: the left one is mapped
C12_Witness ==
    /\ mode = "trades"
    /\ pc = "trades_scan"
    /\ header_row = FirstTradesTitle + 2
    /\ ws[header_row - 1] = HeaderTradesPartial
    /\ ws[header_row] = HeaderTradesAlt
    /\ header_row < Len(ws)
    /\ HeaderAt(header_row + 1)
    /\ idx_map["amount"] = 2
    /\ "comm_ts" \notin DOMAIN idx_map

\* C13. The accumulated fee of the batch is zero at the start of every row and
\* when the scan is over: it is non-zero only inside the handling of a
\* subtotal row. So the flush at a terminating title allocates nothing, and a
\* trade without a commission of its own that no subtotal row follows, before
\* the section or the grid ends, keeps an absent fee.
C13_FeeZeroAtRowStart ==
    (pc \in {"trades_scan", "done"} /\ err = NoErr /\ header_row > 0) =>
       /\ batch_total_fee = Zero
       /\ LET Q == TradePositions(r)
              last == SubtotalAbove(Min(r, Len(ws) + 1))
          IN  \A k \in 1..Len(rows) :
                 (Q[k] > last /\ ReportedFee(Q[k]).n = 0) => rows[k].FeeTax = None

\* the grid has ended after a trade that follows the subtotal row: the trade
\* above the subtotal row has the fee 40, the one below it has none
C13_Witness ==
    /\ alloc_commission
    /\ pc = "done"
    /\ err = NoErr
    /\ header_row > 0
    /\ r > Len(ws)
    /\ ws[Len(ws)] = Sell3000
    /\ Len(rows) = 2
    /\ rows[1].FeeTax = Num(40)
    /\ rows[2].FeeTax = None
    /\ batch_items # <<>>

====
